---- MODULE Spec2Model ----
(***************************************************************************)
(* Visibility + draw-batching pipeline of SourceUtils' MapViewServer:      *)
(* the per-cluster PVS cache of Map, the per-camera RenderContext and the  *)
(* DrawList (collect / sort / merge / replay).                             *)
(***************************************************************************)
EXTENDS Integers, Sequences, FiniteSets, TLC

VARIABLES
    info,             \* Map.info : null | the brush entities' model indices
    models,           \* Map.models : index -> undefined (0) | the entity registered
    worldLoaded,      \* Map.models[0] is set (getWorldSpawn() != null)
    pvsArray,         \* Map.pvsArray : cluster -> null | VisLeaf[]
    pending,          \* visibility fetches in flight, each with its callback closure
    fetchCount,       \* number of $.getJSON visibility requests issued per cluster
    pvsFollowsCamera, \* RenderContext.pvsFollowsCamera
    pvsOrigin,        \* leaf that findLeaf(RenderContext.pvsOrigin) resolves to
    pvsRoot,          \* RenderContext.pvsRoot
    items,            \* DrawList.items
    handles,          \* DrawList.handles : null | WorldMeshHandle[]
    merged,           \* DrawList.merged
    hookBalance,      \* per DrawList and item: onAddToDrawList calls received less
                      \* onRemoveFromDrawList calls received
    isBuildingList,   \* DrawList.isBuildingList
    canRender,        \* DrawList.canRender
    meshHandles,      \* what each DrawListItem's getMeshHandles() returns
    compiled,         \* shader programs whose isCompiled() is true
    matReady,         \* materials whose prepareForRendering() is true
    skyMaterial,      \* Map.skyMaterial : "null" | "enabled" | "disabled"
    skyRenderContext, \* MapViewer.skyRenderContext != null
    mdlInfo,          \* StudioModel.info : null | the sub-models of all body parts
    toLoad,           \* StudioModel.toLoad
    loaded,           \* StudioModel.loaded
    meshData,         \* per SmdModel: meshData != null
    modelLoadCallbacks, \* StudioModel.modelLoadCallbacks
    mdlRequest,       \* the $.getJSON request of the studio model in flight
    meshFetches,      \* number of mesh data requests issued per SmdModel
    invocations,      \* per callback and SmdModel: number of invocations
    reported,         \* what the callback of loadNext reported last
    last              \* observation of the handler that ran last

vars == <<info, models, worldLoaded, pvsArray, pending, fetchCount, pvsFollowsCamera, pvsOrigin,
          pvsRoot, items, handles, merged, hookBalance, isBuildingList, canRender, meshHandles,
          compiled, matReady, skyMaterial, skyRenderContext, mdlInfo, toLoad, loaded, meshData, modelLoadCallbacks,
          mdlRequest, meshFetches, invocations, reported, last>>

(***************************************************************************)
(* Bounds                                                                  *)
(***************************************************************************)
NumClusters == 2
NumTiles == 3
NumSubModels == 2
NumCallbacks == 2

(***************************************************************************)
(* Small helpers                                                           *)
(***************************************************************************)
Range(s) == {s[i] : i \in 1..Len(s)}

RECURSIVE Flatten(_)
Flatten(ss) == IF ss = <<>> THEN <<>> ELSE Head(ss) \o Flatten(Tail(ss))

RECURSIVE SumSeq(_)
SumSeq(s) == IF s = <<>> THEN 0 ELSE Head(s) + SumSeq(Tail(s))

(***************************************************************************)
(* The static world: leaves, clusters, visibility records                  *)
(***************************************************************************)
NumContexts == 2
Contexts == 1..NumContexts

NoLeaf == 0             \* findLeaf found nothing (null)
UndefLeaf == -2         \* pvsRoot before the first updatePvs (undefined)
NoCluster == -1         \* VisLeaf.cluster of a leaf outside every cluster

\* Cluster 0 has two leaves, every other cluster one, and the last leaf is in no
\* cluster.
NumLeaves == NumClusters + 2
Leaves == 1..NumLeaves
Clusters == 0..(NumClusters - 1)
LeafCluster(l) == IF l = NumLeaves THEN NoCluster ELSE IF l <= 2 THEN 0 ELSE l - 2

\* worldSpawn.findLeaf(pos): a position is named by the leaf that contains it.
Positions == Leaves \cup {NoLeaf}
FindLeaf(pos) == pos

\* Map.clusters, as onModelLoaded fills it: the leaves of each cluster, in leaf order.
clusters ==
    [c \in Clusters |->
        SelectSeq([i \in 1..NumLeaves |-> i], LAMBDA l : LeafCluster(l) = c)]

\* Utils.decompress(data.pvs) of cluster c's visibility record:
\* every cluster sees itself and the next one.
VisRecord(c) == IF c + 1 < NumClusters THEN <<c, c + 1>> ELSE <<c>>

\* Map.displacements: each with the clusters it touches.
NumDisplacements == 2
DispItem(d) == NumLeaves + d
DispClusters(d) == IF d = 1 THEN <<0, NumClusters - 1>> ELSE <<0>>

\* Map.models[1..]: one brush model with one leaf of its own.
BrushLeaf == NumLeaves + NumDisplacements + 1
BrushModels == <<[clusters |-> <<0>>, leaves |-> <<BrushLeaf>>]>>

WorldItems == 1..BrushLeaf

(***************************************************************************)
(* Materials (Map.getMaterial)                                             *)
(***************************************************************************)
NullMaterial == 0
BlankMaterial == 101
ErrorMaterial == 102
SkyMaterial == 103
NoIndex == -2           \* materialIndex === undefined

\* Map.materials as loadMaterials leaves it: entry 1 (index 1) is null.
materials == <<1, NullMaterial, 3>>

\* getMaterial without the blank and error fall-backs.
GetMaterialOrNull(index) ==
    IF index = -1 THEN SkyMaterial
    ELSE IF index = NoIndex \/ index >= Len(materials) THEN NullMaterial
    ELSE materials[index + 1]

GetMaterial(index) ==
    IF index = -1 THEN SkyMaterial
    ELSE IF index = NoIndex THEN BlankMaterial
    ELSE LET m == IF index < Len(materials) THEN materials[index + 1] ELSE BlankMaterial
         IN  IF m = NullMaterial THEN ErrorMaterial ELSE m

\* StudioModel.materials of the one studio model, and StudioModel.getMaterial.
mdlMaterials == <<4>>
MdlGetMaterial(index) == mdlMaterials[index + 1]

AllMaterials ==
    (Range(materials) \ {NullMaterial}) \cup Range(mdlMaterials)
        \cup {BlankMaterial, ErrorMaterial, SkyMaterial}

\* Material.getProgram(): two shader programs.
MaterialProgram(m) == IF m \in {3, 4, SkyMaterial} THEN 2 ELSE 1
Programs == {MaterialProgram(m) : m \in AllMaterials}

(***************************************************************************)
(* WorldMeshHandle                                                         *)
(***************************************************************************)
Handle(parent, group, drawMode, materialIndex, offset, count) ==
    [parent |-> parent, group |-> group, drawMode |-> drawMode,
     material |-> NullMaterial, materialIndex |-> materialIndex,
     offset |-> offset, count |-> count]

\* WorldMeshHandle.compareTo: program, material, transform, group, draw mode,
\* and the offset last, so that a contiguous range sorts in range order.
HandleKey(h) ==
    <<MaterialProgram(h.material), h.material, h.parent, h.group, h.drawMode, h.offset>>

RECURSIVE LexLess(_, _)
LexLess(a, b) ==
    IF a = <<>> THEN FALSE
    ELSE IF Head(a) # Head(b) THEN Head(a) < Head(b)
    ELSE LexLess(Tail(a), Tail(b))

compareTo(a, b) ==
    IF LexLess(HandleKey(a), HandleKey(b)) THEN -1
    ELSE IF LexLess(HandleKey(b), HandleKey(a)) THEN 1 ELSE 0

\* WorldMeshHandle.canMerge / merge
canMerge(a, b) ==
    /\ a.parent = b.parent
    /\ a.group = b.group
    /\ a.drawMode = b.drawMode
    /\ a.material = b.material
    /\ a.offset + a.count = b.offset

merge(a, b) == [a EXCEPT !.count = a.count + b.count]

(***************************************************************************)
(* The state as one record, so that a handler is the composition of the    *)
(* methods it calls                                                        *)
(***************************************************************************)
NullList == [isNull |-> TRUE, list |-> <<>>]
ListOf(s) == [isNull |-> FALSE, list |-> s]

State ==
    [info |-> info, models |-> models,
     worldLoaded |-> worldLoaded, pvsArray |-> pvsArray, pending |-> pending,
     fetchCount |-> fetchCount, pvsFollowsCamera |-> pvsFollowsCamera,
     pvsOrigin |-> pvsOrigin, pvsRoot |-> pvsRoot, items |-> items,
     handles |-> handles, merged |-> merged, hookBalance |-> hookBalance,
     isBuildingList |-> isBuildingList,
     canRender |-> canRender, meshHandles |-> meshHandles, compiled |-> compiled,
     matReady |-> matReady, skyMaterial |-> skyMaterial,
     skyRenderContext |-> skyRenderContext, mdlInfo |-> mdlInfo, toLoad |-> toLoad, loaded |-> loaded,
     meshData |-> meshData, modelLoadCallbacks |-> modelLoadCallbacks,
     mdlRequest |-> mdlRequest, meshFetches |-> meshFetches,
     invocations |-> invocations, reported |-> reported, last |-> last]

Becomes(w) ==
    /\ info' = w.info
    /\ models' = w.models
    /\ worldLoaded' = w.worldLoaded
    /\ pvsArray' = w.pvsArray
    /\ pending' = w.pending
    /\ fetchCount' = w.fetchCount
    /\ pvsFollowsCamera' = w.pvsFollowsCamera
    /\ pvsOrigin' = w.pvsOrigin
    /\ pvsRoot' = w.pvsRoot
    /\ items' = w.items
    /\ handles' = w.handles
    /\ merged' = w.merged
    /\ hookBalance' = w.hookBalance
    /\ isBuildingList' = w.isBuildingList
    /\ canRender' = w.canRender
    /\ meshHandles' = w.meshHandles
    /\ compiled' = w.compiled
    /\ matReady' = w.matReady
    /\ skyMaterial' = w.skyMaterial
    /\ skyRenderContext' = w.skyRenderContext
    /\ mdlInfo' = w.mdlInfo
    /\ toLoad' = w.toLoad
    /\ loaded' = w.loaded
    /\ meshData' = w.meshData
    /\ modelLoadCallbacks' = w.modelLoadCallbacks
    /\ mdlRequest' = w.mdlRequest
    /\ meshFetches' = w.meshFetches
    /\ invocations' = w.invocations
    /\ reported' = w.reported
    /\ last' = w.last

\* What a handler leaves in `last`: which handler ran, on which context, and what
\* it was observed to do.
Idle ==
    [op |-> "init", ctx |-> 0, skipped |-> FALSE,
     cb |-> FALSE, cbCluster |-> NoCluster, cbLoading |-> FALSE, cbFull |-> FALSE,
     stale |-> FALSE, installed |-> FALSE,
     wasDirty |-> FALSE, rebuilt |-> FALSE, reentered |-> FALSE, threw |-> FALSE,
     draws |-> 0, events |-> <<>>, adds |-> {}, removed |-> {}, nested |-> {},
     skyPass |-> FALSE, sky2D |-> FALSE]

Begin(w, op, k) == [w EXCEPT !.last = [Idle EXCEPT !.op = op, !.ctx = k]]

(***************************************************************************)
(* DrawList                                                                *)
(***************************************************************************)
\* invalidate without the re-entrancy guard.
InvalidateUnguarded(w, k) == [w EXCEPT !.handles[k] = NullList]

\* invalidate that also throws the merged list away.
InvalidateDropsMerged(w, k) ==
    IF w.isBuildingList[k] THEN w
    ELSE [w EXCEPT !.handles[k] = NullList, !.merged[k] = <<>>]

\* DrawList.invalidate
Invalidate(w, k) ==
    IF w.isBuildingList[k] THEN w ELSE [w EXCEPT !.handles[k] = NullList]

\* DrawList.updateItem
UpdateItem(w, k, item) == Invalidate(w, k)

\* DrawList.addItem
AddItem(w, k, item) ==
    [UpdateItem([w EXCEPT !.items[k] = Append(@, item)], k, item)
        EXCEPT !.hookBalance[k][item] = @ + 1]

RECURSIVE AddItems(_, _, _)
AddItems(w, k, its) ==
    IF its = <<>> THEN w ELSE AddItems(AddItem(w, k, Head(its)), k, Tail(its))

\* The number of times the item is in the list.
Occurrences(its, item) == Cardinality({i \in 1..Len(its) : its[i] = item})

\* clear that empties the lists without telling the items.
ClearUnnotified(w, k) ==
    [w EXCEPT !.items[k] = <<>>, !.handles[k] = ListOf(<<>>), !.merged[k] = <<>>]

\* DrawList.clear: every entry of items gets onRemoveFromDrawList, then the lists
\* are emptied.
Clear(w, k) ==
    [w EXCEPT !.items[k] = <<>>, !.handles[k] = ListOf(<<>>), !.merged[k] = <<>>,
              !.hookBalance[k] =
                  [it \in DOMAIN @ |-> @[it] - Occurrences(w.items[k], it)],
              !.last.removed = @ \cup Range(w.items[k])]

\* this.handles.push(handle): throws when the list is null.
PushHandle(w, k, h) ==
    IF w.handles[k].isNull THEN [w EXCEPT !.last.threw = TRUE]
    ELSE [w EXCEPT !.handles[k].list = Append(@, h)]

\* The inner loop of buildHandleList over the handles of one item; a handle whose
\* material is resolved by index keeps the resolved material.
RECURSIVE CollectHandle(_, _, _, _)
CollectHandle(w, k, it, j) ==
    IF w.last.threw \/ j > Len(w.meshHandles[it].list) THEN w
    ELSE LET h == w.meshHandles[it].list[j]
         IN  IF h.count = 0 THEN CollectHandle(w, k, it, j + 1)
             ELSE IF h.material # NullMaterial
                  THEN CollectHandle(PushHandle(w, k, h), k, it, j + 1)
             ELSE LET r == [h EXCEPT !.material = GetMaterial(h.materialIndex)]
                      w1 == [w EXCEPT !.meshHandles[it].list[j] = r]
                  IN  IF r.material = NullMaterial
                      THEN CollectHandle(w1, k, it, j + 1)
                      ELSE CollectHandle(PushHandle(w1, k, r), k, it, j + 1)

\* An outer loop that gives up at the first item without mesh handles.
RECURSIVE CollectFromUntilNull(_, _, _, _, _)
CollectFromUntilNull(w, k, i, iEnd, reenter) ==
    IF w.last.threw \/ i > iEnd THEN w
    ELSE LET it == w.items[k][i]
             w1 == IF i \in reenter
                   THEN [UpdateItem(w, k, it) EXCEPT !.last.reentered = TRUE]
                   ELSE w
         IN  IF w1.meshHandles[it].isNull THEN w1
             ELSE CollectFromUntilNull(CollectHandle(w1, k, it, 1), k, i + 1, iEnd, reenter)

\* getMeshHandles of the item at position i calling drawList.addItem for the items
\* that last.adds names for that position.
AddsAt(w, k, i) ==
    LET es == {e \in w.last.adds : e.at = i}
    IN  IF es = {} THEN w ELSE AddItem(w, k, (CHOOSE e \in es : TRUE).item)

\* The outer loop of buildHandleList from item i on. The items of `reenter` signal a
\* change to the draw list (updateItem) from inside their getMeshHandles.
RECURSIVE CollectFrom(_, _, _, _, _)
CollectFrom(w, k, i, iEnd, reenter) ==
    IF w.last.threw \/ i > iEnd THEN w
    ELSE LET it == w.items[k][i]
             w1 == IF i \in reenter
                   THEN [UpdateItem(w, k, it) EXCEPT !.last.reentered = TRUE]
                   ELSE w
             w2 == AddsAt(w1, k, i)
         IN  IF w2.meshHandles[it].isNull
             THEN CollectFrom(w2, k, i + 1, iEnd, reenter)
             ELSE CollectFrom(CollectHandle(w2, k, it, 1), k, i + 1, iEnd, reenter)

\* buildHandleList up to the sort: handles = [], the guard raised, the items
\* collected, the guard lowered.
CollectHandles(w, k, reenter) ==
    LET w0 == [w EXCEPT !.handles[k] = ListOf(<<>>), !.isBuildingList[k] = TRUE]
        w1 == CollectFrom(w0, k, 1, Len(w0.items[k]), reenter)
    IN  IF w1.last.threw THEN w1 ELSE [w1 EXCEPT !.isBuildingList[k] = FALSE]

\* this.handles.sort(compareHandles): every order of the indices of hs that the
\* comparison allows (handles that compare equal may end in either order).
RECURSIVE SortedOrdersOf(_, _)
SortedOrdersOf(hs, S) ==
    IF S = {} THEN {<<>>}
    ELSE LET mins == {i \in S : \A j \in S : compareTo(hs[i], hs[j]) <= 0}
         IN  UNION {{<<i>> \o r : r \in SortedOrdersOf(hs, S \ {i})} : i \in mins}

\* A build that leaves the handles in collection order.
SortedOrdersUnsorted(hs) == {[i \in 1..Len(hs) |-> i]}

SortedOrders(hs) == SortedOrdersOf(hs, 1..Len(hs))

\* A merge loop that joins a contiguous handle to the last call without adding its
\* count.
RECURSIVE MergeFromUncounted(_, _, _)
MergeFromUncounted(hs, i, acc) ==
    IF i > Len(hs) THEN acc
    ELSE IF acc # <<>> /\ canMerge(acc[Len(acc)], hs[i])
         THEN MergeFromUncounted(hs, i + 1, acc)
         ELSE MergeFromUncounted(hs, i + 1, Append(acc, hs[i]))

\* The merge loop of buildHandleList: `acc` is this.merged, its last element `last`.
RECURSIVE MergeFrom(_, _, _)
MergeFrom(hs, i, acc) ==
    IF i > Len(hs) THEN acc
    ELSE LET next == hs[i]
         IN  IF acc # <<>> /\ canMerge(acc[Len(acc)], next)
             THEN MergeFrom(hs, i + 1, [acc EXCEPT ![Len(acc)] = merge(@, next)])
             ELSE MergeFrom(hs, i + 1, Append(acc, next))

\* A merge loop that starts a new call for every handle.
MergeHandlesNone(hs) == hs

MergeHandles(hs) == MergeFrom(hs, 1, <<>>)

\* DrawList.buildHandleList; ord is the order the sort leaves the handles in.
BuildHandleList(w, k, reenter, ord) ==
    LET w1 == CollectHandles(w, k, reenter)
    IN  IF w1.last.threw \/ w1.handles[k].isNull THEN [w1 EXCEPT !.last.threw = TRUE]
        ELSE LET hs == w1.handles[k].list
                 sorted == [i \in 1..Len(hs) |-> hs[ord[i]]]
             IN  [w1 EXCEPT !.handles[k] = ListOf(sorted),
                            !.merged[k] = MergeHandles(sorted),
                            !.last.rebuilt = TRUE]

\* The orders the sort of the coming rebuild may produce.
SortChoices(w, k, reenter) ==
    LET w1 == CollectHandles(w, k, reenter)
    IN  IF w.handles[k].isNull /\ ~w1.last.threw /\ ~w1.handles[k].isNull
        THEN SortedOrders(w1.handles[k].list) ELSE {<<>>}

\* DrawList.renderHandle, on the replay state rs (the last* fields and canRender).
NoProgram == 0
NoGroup == -1
NoParent == -1

\* One call made on the context, a program or a mesh-storage group during replay:
\* which merged call was being replayed, and the program and material bound then.
Emit(rs, ev, arg) ==
    [rs EXCEPT !.events = Append(@, [ev |-> ev, call |-> rs.call, prog |-> rs.lastProgram,
                                     material |-> rs.lastMaterial, arg |-> arg])]

RenderHandle(rs, h, w) ==
    LET changedParent == rs.lastParent # h.parent
        r1 == IF changedParent
              THEN Emit([rs EXCEPT !.lastParent = h.parent], "setModelTransform", h.parent)
              ELSE rs
        byIndex == h.materialIndex # NoIndex /\ r1.lastMaterialIndex # h.materialIndex
        byRef == h.materialIndex = NoIndex /\ r1.lastMaterial # h.material
        changedMaterial == byIndex \/ byRef
        r2 == IF byIndex
              THEN [r1 EXCEPT !.lastMaterialIndex = h.materialIndex,
                              !.lastMaterial = GetMaterial(h.materialIndex)]
              ELSE IF byRef
              THEN [r1 EXCEPT !.lastMaterialIndex = NoIndex, !.lastMaterial = h.material]
              ELSE r1
    IN  IF changedMaterial /\ r2.lastMaterial = NullMaterial
        THEN [r2 EXCEPT !.canRender = FALSE]
        ELSE LET prog == MaterialProgram(r2.lastMaterial)
                 changedProgram == changedMaterial /\ r2.lastProgram # prog
                 changedTransform == changedParent \/ changedProgram
                 r3a == IF changedProgram /\ r2.lastProgram # NoProgram
                        THEN Emit(r2, "cleanupPostRender", r2.lastProgram) ELSE r2
                 r3 == IF changedProgram
                       THEN Emit([r3a EXCEPT !.lastProgram = prog], "prepareForRendering", prog)
                       ELSE r2
                 r4 == IF changedMaterial
                       THEN [r3 EXCEPT !.canRender = r3.lastProgram \in w.compiled
                                                     /\ r3.lastMaterial \in w.matReady]
                       ELSE r3
                 r5 == IF changedTransform
                       THEN Emit(r4, "changeModelTransform", r4.lastParent) ELSE r4
                 r6 == IF r5.lastGroup # h.group \/ changedProgram
                       THEN Emit([r5 EXCEPT !.lastGroup = h.group], "prepareGroup", h.group)
                       ELSE r5
             IN  IF ~r4.canRender THEN r4
                 ELSE Emit([r6 EXCEPT !.draws = Append(@, h)], "renderElements", h.offset)

\* The loop of DrawList.render over the merged calls from call i on. (The state
\* after a call is bound as a value, r, before the loop goes on.)
RECURSIVE Replay(_, _, _, _)
Replay(rs, hs, i, w) ==
    IF i > Len(hs) THEN rs
    ELSE CHOOSE out \in {Replay(r, hs, i + 1, w) :
                            r \in {RenderHandle([rs EXCEPT !.call = i], hs[i], w)}} : TRUE

\* DrawList.render
DrawListRender(w, k, reenter, ord) ==
    LET dirty == w.handles[k].isNull
        w0 == [w EXCEPT !.last.wasDirty = dirty]
        w1 == IF dirty THEN BuildHandleList(w0, k, reenter, ord) ELSE w0
        rs0 == [lastParent |-> NoParent, lastGroup |-> NoGroup, lastProgram |-> NoProgram,
                lastMaterialIndex |-> NoIndex, lastMaterial |-> NullMaterial,
                canRender |-> w1.canRender[k], draws |-> <<>>, call |-> 0, events |-> <<>>]
        End(rs1) ==
            LET rs == IF rs1.lastProgram # NoProgram
                      THEN Emit([rs1 EXCEPT !.call = 0], "cleanupPostRender", rs1.lastProgram)
                      ELSE rs1
            IN  [w1 EXCEPT !.canRender[k] = rs.canRender, !.last.draws = Len(rs.draws),
                           !.last.events = rs.events]
    IN  IF w1.last.threw THEN w1
        ELSE CHOOSE out \in {End(r) : r \in {Replay(rs0, w1.merged[k], 1, w1)}} : TRUE

(***************************************************************************)
(* Map: visibility cache and draw-list population                          *)
(***************************************************************************)
\* VisLeaf.getIsInDrawList(drawList)
getIsInDrawList(w, k, leaf) == leaf \in Range(w.items[k])

\* isAnyClusterVisible asking for every cluster instead of any.
IsEveryClusterVisible(w, k, cs) ==
    \A j \in 1..Len(cs) : getIsInDrawList(w, k, clusters[cs[j]][1])

\* Map.isAnyClusterVisible
IsAnyClusterVisible(w, k, cs) ==
    \E j \in 1..Len(cs) : getIsInDrawList(w, k, clusters[cs[j]][1])

\* The displacement loop of appendToDrawList, from the last displacement down.
RECURSIVE AppendDisplacements(_, _, _)
AppendDisplacements(w, k, d) ==
    IF d < 1 THEN w
    ELSE AppendDisplacements(
            IF IsAnyClusterVisible(w, k, DispClusters(d)) THEN AddItem(w, k, DispItem(d)) ELSE w,
            k, d - 1)

\* The brush-model loop of appendToDrawList (models[1..]).
RECURSIVE AppendModels(_, _, _)
AppendModels(w, k, i) ==
    IF i > Len(BrushModels) THEN w
    ELSE AppendModels(
            IF IsAnyClusterVisible(w, k, BrushModels[i].clusters)
            THEN AddItems(w, k, BrushModels[i].leaves) ELSE w,
            k, i + 1)

\* Map.appendToDrawList
AppendToDrawList(w, k, pvs) ==
    AppendModels(AppendDisplacements(AddItems(w, k, pvs), k, NumDisplacements), k, 1)

\* replacePvs that leaves the batch alone when handed no list.
ReplacePvsKeepsOnNull(w, k, pvs) ==
    IF pvs.isNull THEN w ELSE AppendToDrawList(Clear(w, k), k, pvs.list)

\* RenderContext.replacePvs
ReplacePvs(w, k, pvs) ==
    IF pvs.isNull THEN Clear(w, k) ELSE AppendToDrawList(Clear(w, k), k, pvs.list)

\* The callback without its still-the-current-root test.
PvsCallbackUnguarded(w, k, root, pvs) ==
    [ReplacePvs(w, k, ListOf(pvs)) EXCEPT !.last.installed = TRUE]

\* The callback updatePvs hands to getPvsArray, closed over the context and the root.
PvsCallback(w, k, root, pvs) ==
    IF w.pvsRoot[k] # NoLeaf /\ w.pvsRoot[k] = root
    THEN [ReplacePvs(w, k, ListOf(pvs)) EXCEPT !.last.installed = TRUE]
    ELSE w

Loading(w, c) == \E f \in w.pending : f.cluster = c

\* A decoding that takes only the first leaf of every visible cluster.
DecodePvsFirstLeaves(c) ==
    [i \in 1..Len(VisRecord(c)) |-> clusters[VisRecord(c)[i]][1]]

\* The leaf list a visibility record decodes to (the loop of loadPvsArray's callback).
DecodePvs(c) == Flatten([i \in 1..Len(VisRecord(c)) |-> clusters[VisRecord(c)[i]]])

\* Observation: a getPvsArray callback is invoked with the list pvs, for a request
\* context k made for root.
Delivered(w, k, root, pvs) ==
    [w EXCEPT !.last.cb = TRUE,
              !.last.cbCluster = LeafCluster(root),
              !.last.cbLoading = Loading(w, LeafCluster(root)),
              !.last.cbFull = (pvs = DecodePvs(LeafCluster(root))),
              !.last.stale = (w.pvsRoot[k] # root)]

\* loadPvsArray that registers no entry before the fetch returns.
LoadPvsArrayNoEntry(w, k, root) ==
    LET c == LeafCluster(root)
    IN  [w EXCEPT !.fetchCount[c] = @ + 1,
                  !.pending = @ \cup {[cluster |-> c, ctx |-> k, root |-> root,
                                        id |-> w.fetchCount[c] + 1]}]

\* Map.loadPvsArray: the entry becomes an empty list at once, the fetch is issued.
LoadPvsArray(w, k, root) ==
    LET c == LeafCluster(root)
    IN  [w EXCEPT !.pvsArray[c] = ListOf(<<>>),
                  !.fetchCount[c] = @ + 1,
                  !.pending = @ \cup {[cluster |-> c, ctx |-> k, root |-> root,
                                        id |-> w.fetchCount[c] + 1]}]

\* getPvsArray that never looks at the cache.
GetPvsArrayRefetches(w, k, root) == LoadPvsArray(w, k, root)

\* Map.getPvsArray
GetPvsArray(w, k, root) ==
    LET c == LeafCluster(root)
        pvs == w.pvsArray[c]
    IN  IF ~pvs.isNull
        THEN PvsCallback(Delivered(w, k, root, pvs.list), k, root, pvs.list)
        ELSE LoadPvsArray(w, k, root)

\* The $.getJSON callback of loadPvsArray, for the fetch f.
OnPvsLoaded(w, f) ==
    LET c == f.cluster
        w1 == [w EXCEPT !.pending = @ \ {f}, !.pvsArray[c].list = @ \o DecodePvs(c)]
        pvs == w1.pvsArray[c].list
    IN  PvsCallback(Delivered(w1, f.ctx, f.root, pvs), f.ctx, f.root, pvs)

(***************************************************************************)
(* Map.loadInfo: the registration of the brush models                      *)
(***************************************************************************)
\* A registration loop that registers over whatever the index holds.
RECURSIVE RegisterOverwriting(_, _, _)
RegisterOverwriting(w, ents, i) ==
    IF i > Len(ents) THEN w
    ELSE RegisterOverwriting([w EXCEPT !.models[ents[i] + 1] = i], ents, i + 1)

\* The loop over data.brushEnts from entity i on; ents[i] is the entity's model
\* index, and the model registered for entity i is named i.
RECURSIVE RegisterFrom(_, _, _)
RegisterFrom(w, ents, i) ==
    IF i > Len(ents) THEN w
    ELSE IF w.models[ents[i] + 1] # 0 THEN [w EXCEPT !.last.threw = TRUE]
    ELSE RegisterFrom([w EXCEPT !.models[ents[i] + 1] = i], ents, i + 1)

\* The $.getJSON callback of loadInfo, for numModels models and these entities.
LoadInfo(w, numModels, ents) ==
    LET w0 == [w EXCEPT !.info = ListOf(ents), !.models = [m \in 1..numModels |-> 0]]
        w1 == RegisterFrom(w0, ents, 1)
    IN  [w1 EXCEPT !.worldLoaded = Len(w1.models) > 0 /\ w1.models[1] # 0]

(***************************************************************************)
(* RenderContext                                                           *)
(***************************************************************************)
\* updatePvs without the unchanged-root shortcut.
UpdatePvsAlways(w, k, force) ==
    IF ~w.worldLoaded THEN w
    ELSE LET root == FindLeaf(w.pvsOrigin[k])
             w1 == [w EXCEPT !.pvsRoot[k] = root]
         IN  IF root = NoLeaf \/ LeafCluster(root) = NoCluster
             THEN ReplacePvs(w1, k, NullList)
             ELSE GetPvsArray(w1, k, root)

\* RenderContext.updatePvs
UpdatePvs(w, k, force) ==
    IF ~w.worldLoaded THEN w
    ELSE LET root == FindLeaf(w.pvsOrigin[k])
         IN  IF root = w.pvsRoot[k] /\ ~force THEN [w EXCEPT !.last.skipped = TRUE]
             ELSE LET w1 == [w EXCEPT !.pvsRoot[k] = root]
                  IN  IF root = NoLeaf \/ LeafCluster(root) = NoCluster
                      THEN ReplacePvs(w1, k, NullList)
                      ELSE GetPvsArray(w1, k, root)

\* RenderContext.render, up to drawList.render: the origin follows the camera.
RenderPvs(w, k, cam) ==
    UpdatePvs(IF w.pvsFollowsCamera[k] THEN [w EXCEPT !.pvsOrigin[k] = cam] ELSE w,
              k, FALSE)

(***************************************************************************)
(* The viewer: two render contexts over one map                            *)
(***************************************************************************)
\* The mesh handles of the world's items: one span each, all of material 1,
\* the brush leaf under its own transform, the displacements in their own group.
WorldHandles ==
    [i \in WorldItems |->
        ListOf(<<[Handle(IF i = BrushLeaf THEN 1 ELSE 0,
                         IF i > NumLeaves /\ i < BrushLeaf THEN 1 ELSE 0,
                         4, NoIndex, i - 1, 1) EXCEPT !.material = 1]>>)]

\* The sub-models a studio model can have, the callbacks that can be registered with
\* it, and the absence of a request.
SubModels == 1..NumSubModels
Callbacks == 1..NumCallbacks
NoRequest == [kind |-> "none", model |-> 0]

\* The state after construction: the map not yet loaded, the main context following
\* its camera and the sky context pinned (setPvsOrigin) to a position of its own.
InitReady(mh, sky, cmp, rdy) ==
    /\ info = NullList
    /\ models = <<>>
    /\ worldLoaded = FALSE
    /\ pvsArray = [c \in Clusters |-> NullList]
    /\ pending = {}
    /\ fetchCount = [c \in Clusters |-> 0]
    /\ pvsFollowsCamera = [k \in Contexts |-> k # NumContexts]
    /\ pvsOrigin = [k \in Contexts |-> IF k = NumContexts THEN sky ELSE NoLeaf]
    /\ pvsRoot = [k \in Contexts |-> UndefLeaf]
    /\ items = [k \in Contexts |-> <<>>]
    /\ handles = [k \in Contexts |-> ListOf(<<>>)]
    /\ merged = [k \in Contexts |-> <<>>]
    /\ hookBalance = [k \in Contexts |-> [it \in DOMAIN mh |-> 0]]
    /\ isBuildingList = [k \in Contexts |-> FALSE]
    /\ canRender = [k \in Contexts |-> FALSE]
    /\ meshHandles = mh
    /\ compiled = cmp
    /\ matReady = rdy
    /\ skyMaterial = "null"
    /\ skyRenderContext = FALSE
    /\ mdlInfo = NullList
    /\ toLoad = <<>>
    /\ loaded = <<>>
    /\ meshData = [m \in SubModels |-> FALSE]
    /\ modelLoadCallbacks = <<>>
    /\ mdlRequest = NoRequest
    /\ meshFetches = [m \in SubModels |-> 0]
    /\ invocations = [c \in Callbacks |-> [m \in SubModels |-> 0]]
    /\ reported = "idle"
    /\ last = Idle

\* Every program compiled and every material ready.
InitWith(mh, sky) == InitReady(mh, sky, Programs, AllMaterials)

Init == \E sky \in Positions : InitWith(WorldHandles, sky)

\* Map.loadInfo's callback for the world of this model: the world model and the
\* brush models are registered.
WorldEnts == [i \in 1..(1 + Len(BrushModels)) |-> i - 1]

LoadWorld ==
    /\ info.isNull
    /\ Becomes(LoadInfo(Begin(State, "loadWorld", 0), Len(WorldEnts), WorldEnts))

\* RenderContext.render with the camera at cam.
Render(k, cam) ==
    LET w1 == RenderPvs(Begin(State, "render", k), k, cam)
    IN  \E ord \in SortChoices(w1, k, {}) : Becomes(DrawListRender(w1, k, {}, ord))

\* RenderContext.updatePvs(true)
ForceUpdatePvs(k) == Becomes(UpdatePvs(Begin(State, "updatePvs", k), k, TRUE))

\* The map's draw-list invalidation handler: drawList.invalidate().
InvalidateDrawList(k) == Becomes(Invalidate(Begin(State, "invalidate", k), k))

\* A visibility fetch completes.
FetchComplete(f) == Becomes(OnPvsLoaded(Begin(State, "pvsLoaded", f.ctx), f))

Next ==
    \/ LoadWorld
    \/ \E k \in Contexts, cam \in Positions : Render(k, cam)
    \/ \E k \in Contexts : ForceUpdatePvs(k)
    \/ \E k \in Contexts : InvalidateDrawList(k)
    \/ \E f \in pending : FetchComplete(f)

Spec == Init /\ [][Next]_vars

(***************************************************************************)
(* A draw list on its own: items with spans of one mesh group                *)
(***************************************************************************)
\* The items are 1..NumTiles. Tile t is a span of count 1 or 2; the spans follow one
\* another from offset 0 and share transform, group, material (a reference to
\* material 1) and draw mode, but for one tile `at` that is changed in one way `kind`
\* (kind "material": it names its material by index 2, resolved by the rebuild). With pair = p > 0 the tiles p and
\* p + 1 are both spans of item p, in either order, and item p + 1 has no geometry yet.
Tiles == 1..NumTiles
Kinds == {"none", "gap", "overlap", "parent", "group", "material", "drawMode", "zero"}

TileCount(t) == 1 + (t % 2)

TileStart(t, kind, at) ==
    SumSeq([u \in 1..(t - 1) |-> TileCount(u)])
    + (IF kind = "gap" /\ t >= at THEN 1 ELSE 0)
    - (IF kind = "overlap" /\ t >= at /\ at > 1 THEN 1 ELSE 0)

Tile(t, kind, at) ==
    LET h == Handle(IF kind = "parent" /\ t = at THEN 1 ELSE 0,
                    IF kind = "group" /\ t = at THEN 1 ELSE 0,
                    IF kind = "drawMode" /\ t = at THEN 5 ELSE 4,
                    IF kind = "material" /\ t = at THEN 2 ELSE NoIndex,
                    TileStart(t, kind, at),
                    IF kind = "zero" /\ t = at THEN 0 ELSE TileCount(t))
    IN  IF h.materialIndex = NoIndex THEN [h EXCEPT !.material = 1] ELSE h

SceneHandles(kind, at, pair, flip) ==
    [i \in WorldItems |->
        IF i > NumTiles THEN ListOf(<<>>)
        ELSE IF pair > 0 /\ i = pair
             THEN ListOf(IF flip THEN <<Tile(i + 1, kind, at), Tile(i, kind, at)>>
                                 ELSE <<Tile(i, kind, at), Tile(i + 1, kind, at)>>)
        ELSE IF pair > 0 /\ i = pair + 1 THEN NullList
        ELSE ListOf(<<Tile(i, kind, at)>>)]

InitList ==
    \E kind \in Kinds, at \in Tiles, pair \in 0..(NumTiles - 1), flip \in BOOLEAN :
        /\ kind = "none" => at = 1
        /\ pair = 0 => ~flip
        /\ InitWith(SceneHandles(kind, at, pair, flip), NoLeaf)

TheList == 1

\* drawList.addItem(item), for an item not in the list yet.
ListAddItem(i) ==
    /\ i \notin Range(items[TheList])
    /\ Becomes(AddItem(Begin(State, "addItem", TheList), TheList, i))

\* drawList.updateItem(item)
ListUpdateItem(i) ==
    /\ i \in Range(items[TheList])
    /\ Becomes(UpdateItem(Begin(State, "updateItem", TheList), TheList, i))

\* drawList.invalidate()
ListInvalidate == Becomes(Invalidate(Begin(State, "invalidate", TheList), TheList))

\* drawList.clear()
ListClear == Becomes(Clear(Begin(State, "clear", TheList), TheList))

\* drawList.render(context); the items at the positions of `reenter` call updateItem
\* from inside getMeshHandles.
ListRender(reenter) ==
    LET w == Begin(State, "render", TheList)
    IN  \E ord \in SortChoices(w, TheList, reenter) :
            Becomes(DrawListRender(w, TheList, reenter, ord))

NextList ==
    \/ \E i \in Tiles : ListAddItem(i)
    \/ \E i \in Tiles : ListUpdateItem(i)
    \/ ListInvalidate
    \/ ListClear
    \/ \E p \in 0..Len(items[TheList]) : ListRender(IF p = 0 THEN {} ELSE {p})

SpecList == InitList /\ [][NextList]_vars

(***************************************************************************)
(* Properties of the visibility cache and of updatePvs                     *)
(***************************************************************************)
Clustered(l) == l \in Leaves /\ LeafCluster(l) # NoCluster

\* The fetch of cluster c has completed.
FetchDone(c) == ~pvsArray[c].isNull /\ ~Loading(State, c)

\* The batch a context holds once replacePvs has installed cluster c's leaf list.
ExpectedItems(k, c) == AppendToDrawList(Clear(State, k), k, DecodePvs(c)).items[k]

\* C1: for every cluster, at most one visibility fetch is ever issued, however many
\* getPvsArray calls the contexts make and however they interleave with completions.
C1_AtMostOneFetchPerCluster == \A c \in Clusters : fetchCount[c] <= 1

\* A getPvsArray call for a cluster that already had its one fetch issued.
C1_Witness ==
    /\ last.op = "render"
    /\ last.cb
    /\ fetchCount[last.cbCluster] = 1

\* C2: a getPvsArray callback is never invoked while the cluster's fetch is still in
\* flight, and the list it is invoked with is the fully decoded leaf list.
C2_CallbackOnlyAfterFetch == last.cb => (~last.cbLoading /\ last.cbFull)

\* C3: at the end of a render, if the fetch for the cluster of the context's PVS root
\* has completed, the batch's active set is that cluster's PVS leaves plus the
\* displacement and brush-model items passing the any-of test.  (The batch changes
\* only in replacePvs, so a batch that is wrong here was wrong since the fetch
\* completed or the root last changed, whichever came last.)
C3_BatchReflectsRootAfterRender ==
    \A k \in Contexts :
        (/\ last.op = "render"
         /\ last.ctx = k
         /\ Clustered(pvsRoot[k])
         /\ FetchDone(LeafCluster(pvsRoot[k])))
        => items[k] = ExpectedItems(k, LeafCluster(pvsRoot[k]))

\* C4: when the result of a PVS request for root R arrives while the context's PVS
\* root is another leaf or none, the arrival changes nothing of the batch.
C4_StaleResultNotInstalled ==
    [][(last'.op = "pvsLoaded" /\ last'.stale)
        => (items' = items /\ handles' = handles /\ merged' = merged)]_vars

\* A stale result arrived at a context whose batch holds the current root's items.
C4_Witness ==
    /\ last.op = "pvsLoaded"
    /\ last.stale
    /\ items[last.ctx] # <<>>

\* C5: while the PVS root is none or a leaf of no cluster, the batch is empty, no
\* merged call is left, and a replay issues no draw call.
C5_NoClusterRendersNothing ==
    \A k \in Contexts :
        (pvsRoot[k] = NoLeaf \/ (pvsRoot[k] \in Leaves /\ ~Clustered(pvsRoot[k])))
        => /\ items[k] = <<>>
           /\ merged[k] = <<>>
           /\ (last.op = "render" /\ last.ctx = k) => last.draws = 0

\* A fetch issued earlier completes while the root is the leaf outside every cluster.
C5_Witness ==
    /\ last.op = "pvsLoaded"
    /\ pvsRoot[last.ctx] = NumLeaves
    /\ fetchCount[0] = 1

\* C6: when the leaf found for the PVS origin is the PVS root already and updatePvs
\* is not forced, updatePvs changes neither the batch nor the cached handle list and
\* issues no PVS request.
C6_UnchangedRootSkips ==
    \A k \in Contexts, cam \in Positions :
        LET w == RenderPvs(State, k, cam)
        IN  (worldLoaded /\ FindLeaf(w.pvsOrigin[k]) = pvsRoot[k])
            => /\ w.items = items
               /\ w.handles = handles
               /\ w.merged = merged
               /\ w.pending = pending
               /\ w.fetchCount = fetchCount
               /\ w.pvsArray = pvsArray

\* A render that found the root unchanged, with a populated batch.
C6_Witness ==
    /\ last.op = "render"
    /\ last.skipped
    /\ items[last.ctx] # <<>>

(***************************************************************************)
(* Properties of the draw list's rebuild                                   *)
(***************************************************************************)
SameAttributes(a, b) ==
    /\ a.parent = b.parent
    /\ a.group = b.group
    /\ a.material = b.material
    /\ a.drawMode = b.drawMode

\* The handle at position i of the sorted list hs continues the range of the one
\* before it.
Joined(hs, i) ==
    /\ i > 1
    /\ SameAttributes(hs[i - 1], hs[i])
    /\ hs[i - 1].offset + hs[i - 1].count = hs[i].offset

RunStarts(hs) == {i \in 1..Len(hs) : ~Joined(hs, i)}
RunEnd(hs, s) == CHOOSE e \in s..Len(hs) :
                    /\ \A i \in (s + 1)..e : Joined(hs, i)
                    /\ e = Len(hs) \/ ~Joined(hs, e + 1)
NthStart(hs, n) == CHOOSE s \in RunStarts(hs) :
                      Cardinality({t \in RunStarts(hs) : t <= s}) = n

\* C7: in the sorted list, two neighbours with the same transform, group, material
\* and draw mode end in one merged call exactly when the second starts where the
\* first ends; otherwise, and whenever an attribute differs, a new merged call
\* starts.  The merged call of a run starts at the run's first offset and counts the
\* sum of its spans.
C7_MergeExactlyContiguous ==
    \A k \in Contexts :
        ~handles[k].isNull =>
            LET hs == handles[k].list
                m == merged[k]
            IN  /\ Len(m) = Cardinality(RunStarts(hs))
                /\ \A n \in 1..Len(m) :
                      LET s == NthStart(hs, n)
                          e == RunEnd(hs, s)
                      IN  /\ SameAttributes(m[n], hs[s])
                          /\ m[n].offset = hs[s].offset
                          /\ m[n].count = SumSeq([i \in 1..(e - s + 1) |-> hs[s + i - 1].count])

\* A rebuilt list with a merged pair and, next to it, a pair of equal attributes
\* that is not contiguous.
C7_Witness ==
    /\ last.op = "render"
    /\ last.rebuilt
    /\ LET hs == handles[TheList].list
       IN  /\ \E i \in 2..Len(hs) : Joined(hs, i)
           /\ \E i \in 2..Len(hs) :
                 SameAttributes(hs[i - 1], hs[i]) /\ ~Joined(hs, i)

\* The spans the items of the list hand to a rebuild, with materials resolved.
Resolved(h) ==
    IF h.material # NullMaterial THEN h
    ELSE [h EXCEPT !.material = GetMaterial(h.materialIndex)]

ItemSpans(k) ==
    Flatten([i \in 1..Len(items[k]) |->
        IF meshHandles[items[k][i]].isNull THEN <<>>
        ELSE [j \in 1..Len(meshHandles[items[k][i]].list) |->
                 Resolved(meshHandles[items[k][i]].list[j])]])

Units(h) == h.offset..(h.offset + h.count - 1)

\* The spans ds share their attributes and tile one contiguous range.
TilesOneRange(ds) ==
    /\ ds # <<>>
    /\ \A i \in 1..Len(ds) : ds[i].count > 0 /\ SameAttributes(ds[i], ds[1])
    /\ \A i, j \in 1..Len(ds) : i # j => Units(ds[i]) \cap Units(ds[j]) = {}
    /\ LET all == UNION {Units(ds[i]) : i \in 1..Len(ds)}
       IN  \A u \in all : \A v \in all : \A x \in u..v : x \in all

\* C8: when the spans of the items share transform, group, material and draw mode
\* and tile one contiguous range, a rebuild yields exactly one merged call, whatever
\* the order the items were added in and the order of the spans within an item.
C8_TilingMergesToOne ==
    \A k \in Contexts :
        (~handles[k].isNull /\ TilesOneRange(ItemSpans(k)))
        => /\ Len(merged[k]) = 1
           /\ Units(merged[k][1]) = UNION {Units(ItemSpans(k)[i]) : i \in 1..Len(ItemSpans(k))}

\* A rebuild of three or more tiling spans that were collected out of range order.
C8_Witness ==
    /\ last.op = "render"
    /\ last.rebuilt
    /\ TilesOneRange(ItemSpans(TheList))
    /\ Len(ItemSpans(TheList)) >= 3
    /\ ItemSpans(TheList)[1].offset > ItemSpans(TheList)[2].offset

\* C9: a rebuild during which an item called updateItem/invalidate ends with a
\* non-null cached list, and its merged list is the sort/merge of the spans of the
\* items as they stood when the rebuild started.
C9_ReentrantInvalidateHarmless ==
    (last.op = "render" /\ last.reentered)
    => /\ ~last.threw
       /\ ~handles[last.ctx].isNull
       /\ ~isBuildingList[last.ctx]
       /\ LET ds == SelectSeq(ItemSpans(last.ctx), LAMBDA h : h.count # 0)
          IN  \E ord \in SortedOrders(ds) :
                 LET sorted == [i \in 1..Len(ds) |-> ds[ord[i]]]
                 IN  /\ handles[last.ctx].list = sorted
                     /\ merged[last.ctx] = MergeHandles(sorted)

\* A rebuild of two or more items, one of which signalled a change while it ran.
C9_Witness ==
    /\ last.op = "render"
    /\ last.reentered
    /\ last.rebuilt
    /\ Len(merged[TheList]) >= 2

\* C10: invalidate, updateItem and addItem leave the list dirty and the merged list
\* as it was and rebuild nothing; render rebuilds exactly when it finds the list
\* dirty and leaves it clean; so a render right after a render rebuilds nothing.
C10_RebuildIsLazy ==
    [][/\ last'.op \in {"invalidate", "updateItem", "addItem"}
          => /\ merged' = merged
             /\ handles'[last'.ctx].isNull
             /\ ~last'.rebuilt
       /\ last'.op # "render" => ~last'.rebuilt
       /\ last'.op = "render"
          => /\ last'.rebuilt <=> handles[last'.ctx].isNull
             /\ ~handles'[last'.ctx].isNull
       /\ (last.op = "render" /\ last'.op = "render")
          => (~last'.rebuilt /\ merged' = merged)]_vars

\* A render, straight after a render, of a list with merged calls.
C10_Witness ==
    /\ last.op = "render"
    /\ ~last.rebuilt
    /\ ~last.wasDirty
    /\ merged[TheList] # <<>>


(***************************************************************************)
(* A draw list replayed over descriptors of every material form            *)
(***************************************************************************)
\* Item i holds one descriptor whose material is given in one of these forms:
\*   "ref1", "ref3"  a material reference and no index
\*   "idx0"          index 0 of the map's table
\*   "idxNull"       the index of the map's null entry
\*   "idxOut"        the first index beyond the map's table
\*   "sky"           index -1
\*   "studio"        SmdModel.createMeshHandles: index 0 of the studio model's own
\*                   table together with the reference that table gives
NumCalls == 3
Calls == 1..NumCalls
Forms == {"ref1", "ref3", "idx0", "idxNull", "idxOut", "sky", "studio"}

FormIndex(form) ==
    CASE form = "idx0" -> 0
      [] form = "idxNull" -> 1
      [] form = "idxOut" -> Len(materials)
      [] form = "sky" -> -1
      [] form = "studio" -> 0
      [] OTHER -> NoIndex

FormMaterial(form) ==
    CASE form = "ref1" -> 1
      [] form = "ref3" -> 3
      [] form = "studio" -> MdlGetMaterial(FormIndex(form))
      [] OTHER -> NullMaterial

\* The descriptors never touch one another's range, so none merge; with `vary` the
\* transforms and the groups alternate.
FormHandle(form, i, vary) ==
    [Handle(IF vary THEN i % 2 ELSE 0, IF vary THEN ((i + 1) \div 2) % 2 ELSE 0,
            4, FormIndex(form), 2 * (i - 1), 1)
        EXCEPT !.material = FormMaterial(form)]

ReplayHandles(forms, vary) ==
    [i \in WorldItems |->
        IF i \in Calls THEN ListOf(<<FormHandle(forms[i], i, vary)>>) ELSE ListOf(<<>>)]

\* At most one material whose prepareForRendering fails, at most one program not
\* compiled.
InitReplay ==
    \E forms \in [Calls -> Forms], vary \in BOOLEAN,
       notReady \in {{}, {1}, {3}}, notCompiled \in {{}, {2}} :
        InitReady(ReplayHandles(forms, vary), NoLeaf,
                  Programs \ notCompiled, AllMaterials \ notReady)

\* The items are added, one addItem each.
ReplayAddItems ==
    /\ items[TheList] = <<>>
    /\ Becomes(AddItems(Begin(State, "addItem", TheList), TheList, [i \in Calls |-> i]))

NextReplay ==
    \/ ReplayAddItems
    \/ ListInvalidate
    \/ ListRender({})

SpecReplay == InitReplay /\ [][NextReplay]_vars

(***************************************************************************)
(* Population of the batch from a visibility list                          *)
(***************************************************************************)
RepresentativeIn(k, cs) == \E j \in 1..Len(cs) : clusters[cs[j]][1] \in Range(items[k])
RepresentativeOut(k, cs) == \E j \in 1..Len(cs) : clusters[cs[j]][1] \notin Range(items[k])

\* C11: a displacement, and the leaves of a brush model, are in a context's batch
\* exactly when the first leaf of at least one of their clusters is in that batch.
C11_AnyClusterVisible ==
    \A k \in Contexts :
        /\ \A d \in 1..NumDisplacements :
              DispItem(d) \in Range(items[k]) <=> RepresentativeIn(k, DispClusters(d))
        /\ \A m \in 1..Len(BrushModels) :
              /\ Range(BrushModels[m].leaves) \subseteq Range(items[k])
                    <=> RepresentativeIn(k, BrushModels[m].clusters)
              /\ Range(BrushModels[m].leaves) \cap Range(items[k]) # {}
                    => RepresentativeIn(k, BrushModels[m].clusters)

\* A batch just installed from a list in which one displacement is kept by one of
\* its two clusters while the other is absent, and another displacement and the
\* brush model are left out.
C11_Witness ==
    /\ last.installed
    /\ \E k \in Contexts :
          /\ k = last.ctx
          /\ items[k] # <<>>
          /\ \E d \in 1..NumDisplacements :
                /\ DispItem(d) \in Range(items[k])
                /\ RepresentativeOut(k, DispClusters(d))
          /\ \E d \in 1..NumDisplacements : DispItem(d) \notin Range(items[k])
          /\ BrushLeaf \notin Range(items[k])


(***************************************************************************)
(* What one replay did: the calls recorded in last.events                  *)
(***************************************************************************)
Replayed == last.op = "render" /\ ~last.threw
TheMerged == merged[last.ctx]

EventIndices(kinds) == {j \in 1..Len(last.events) : last.events[j].ev \in kinds}
DrawEvents == EventIndices({"renderElements"})
DrawsOf(i) == {j \in DrawEvents : last.events[j].call = i}

\* The last of the events of these kinds before position j, 0 when there is none.
LastBefore(j, kinds) ==
    LET before == {i \in EventIndices(kinds) : i < j}
    IN  IF before = {} THEN 0 ELSE CHOOSE i \in before : \A i2 \in before : i2 <= i

\* The material a merged call carries, and whether it and its program are ready.
CallReady(h) ==
    /\ h.material # NullMaterial
    /\ MaterialProgram(h.material) \in compiled
    /\ h.material \in matReady

\* C12: in one replay a merged call whose material is missing or not ready, or whose
\* program is not compiled, issues no geometry, and every other merged call issues
\* its geometry exactly once.
C12_NotReadySkippedOthersDrawn ==
    Replayed =>
        \A i \in 1..Len(TheMerged) :
            Cardinality(DrawsOf(i)) = IF CallReady(TheMerged[i]) THEN 1 ELSE 0


\* Every descriptor of the merged list populates exactly one of material reference
\* and material index at its source (no studio-model descriptor among them).
OnePopulated ==
    \A i \in 1..Len(TheMerged) :
        TheMerged[i].materialIndex # NoIndex
            => TheMerged[i].material = GetMaterial(TheMerged[i].materialIndex)

CountOf(ev, p) ==
    Cardinality({j \in EventIndices({ev}) : last.events[j].arg = p})

SetupEvents == EventIndices({"prepareForRendering", "cleanupPostRender"})

\* C15: in one replay every program used by the merged list is set up exactly once,
\* each setup is followed by the teardown of the same program before any other
\* setup, and the replay ends with every program that was set up torn down.
C15_ProgramSetupBalanced ==
    Replayed =>
        /\ \A p \in Programs :
              CountOf("prepareForRendering", p)
                  = IF \E i \in 1..Len(TheMerged) :
                          MaterialProgram(TheMerged[i].material) = p
                    THEN 1 ELSE 0
        /\ \A j \in SetupEvents :
              LET prev == LastBefore(j, {"prepareForRendering", "cleanupPostRender"})
              IN  IF last.events[j].ev = "prepareForRendering"
                  THEN prev # 0 => last.events[prev].ev = "cleanupPostRender"
                  ELSE /\ prev # 0
                       /\ last.events[prev].ev = "prepareForRendering"
                       /\ last.events[prev].arg = last.events[j].arg
        /\ SetupEvents # {}
              => last.events[Len(last.events)].ev = "cleanupPostRender"

\* C18: every draw of a replay is issued after changeModelTransform has run on the
\* program bound at the draw, later than the last setModelTransform on the context
\* and later than the last program switch.
C18_DrawAfterTransformNotified ==
    Replayed =>
        \A j \in DrawEvents :
            LET c == LastBefore(j, {"changeModelTransform"})
            IN  /\ c # 0
                /\ last.events[c].prog = last.events[j].prog
                /\ LastBefore(j, {"setModelTransform", "prepareForRendering"}) < c

\* C19: every draw of a replay is issued after the call's mesh-storage group was
\* prepared against the program bound at the draw, later than the last program
\* switch, with no other group prepared since.
C19_DrawWithGroupBound ==
    Replayed =>
        \A j \in DrawEvents :
            LET g == LastBefore(j, {"prepareGroup"})
            IN  /\ g # 0
                /\ last.events[g].arg = TheMerged[last.events[j].call].group
                /\ last.events[g].prog = last.events[j].prog
                /\ LastBefore(j, {"prepareForRendering"}) < g

\* C20: every draw of a replay is issued with the material bound being the one the
\* merged call carries (its reference, or what its index resolved to at rebuild).
C20_BoundMaterialIsCarried ==
    Replayed =>
        \A j \in DrawEvents :
            last.events[j].material = TheMerged[last.events[j].call].material


(***************************************************************************)
(* Rebuild: descriptors whose material index names no material             *)
(***************************************************************************)
\* The map's table has no material at this index: the index lies beyond the table,
\* or the entry is null.
NoMaterialAt(index) ==
    \/ index >= Len(materials)
    \/ index \in 0..(Len(materials) - 1) /\ materials[index + 1] = NullMaterial

\* The descriptors of the items of the list, empty ones left out, each with the
\* material it is expected to carry into the sort.
Carried(h) ==
    IF ~NoMaterialAt(h.materialIndex) THEN Resolved(h)
    ELSE [h EXCEPT !.material = IF h.materialIndex >= Len(materials)
                                 THEN BlankMaterial ELSE ErrorMaterial]

Descriptors(k) ==
    LET all == Flatten([i \in 1..Len(items[k]) |->
                   IF meshHandles[items[k][i]].isNull THEN <<>>
                   ELSE meshHandles[items[k][i]].list])
        kept == SelectSeq(all, LAMBDA h : h.count # 0)
    IN  [i \in 1..Len(kept) |-> Carried(kept[i])]

IsSortMergeOf(k, ds) ==
    \E ord \in SortedOrders(ds) :
        LET sorted == [i \in 1..Len(ds) |-> ds[ord[i]]]
        IN  /\ handles[k].list = sorted
            /\ merged[k] = MergeHandles(sorted)

\* C13 as claimed: a rebuild drops every descriptor whose material index names no
\* material, and its lists are the sort and the merge of the remaining descriptors.
C13_MissingMaterialDropped ==
    (Replayed /\ last.rebuilt)
    => IsSortMergeOf(last.ctx,
           SelectSeq(Descriptors(last.ctx), LAMBDA h : ~NoMaterialAt(h.materialIndex)))

\* C13: a rebuild keeps a descriptor whose material index names no material, with
\* the blank material for an index beyond the table and the error material for a
\* null entry; its lists are the sort and the merge of all the descriptors, and the
\* kept call issues its geometry once when that material and its program are ready.
C13_MissingMaterialFallsBack ==
    (Replayed /\ last.rebuilt)
    => /\ IsSortMergeOf(last.ctx, Descriptors(last.ctx))
       /\ \A i \in 1..Len(TheMerged) :
             NoMaterialAt(TheMerged[i].materialIndex)
             => /\ TheMerged[i].material \in {BlankMaterial, ErrorMaterial}
                /\ Cardinality(DrawsOf(i)) = IF CallReady(TheMerged[i]) THEN 1 ELSE 0

\* A rebuild and replay of a call by an index beyond the table, a call by the index
\* of the null entry and a third call, all three drawn.
C13_Witness ==
    /\ Replayed
    /\ last.rebuilt
    /\ \E i, j, n \in 1..Len(TheMerged) :
          /\ TheMerged[i].materialIndex >= Len(materials)
          /\ TheMerged[i].material = BlankMaterial
          /\ TheMerged[j].materialIndex = 1
          /\ TheMerged[j].material = ErrorMaterial
          /\ ~NoMaterialAt(TheMerged[n].materialIndex)
          /\ DrawsOf(i) # {} /\ DrawsOf(j) # {} /\ DrawsOf(n) # {}


(***************************************************************************)
(* Rebuild: items without geometry                                         *)
(***************************************************************************)
HasGeometry(it) == ~meshHandles[it].isNull

\* The descriptors, empty ones left out, of the items that have mesh handles.
DescriptorsOfLoaded(k) ==
    LET withGeometry == SelectSeq(items[k], HasGeometry)
        all == Flatten([i \in 1..Len(withGeometry) |-> meshHandles[withGeometry[i]].list])
        kept == SelectSeq(all, LAMBDA h : h.count # 0)
    IN  [i \in 1..Len(kept) |-> Resolved(kept[i])]

\* C14: an item whose getMeshHandles returns none adds nothing to a rebuild and
\* does not stop it: the rebuilt lists are the sort and the merge of the descriptors
\* of the other items alone.
C14_ItemWithoutGeometrySkipped ==
    (Replayed /\ last.rebuilt) => IsSortMergeOf(last.ctx, DescriptorsOfLoaded(last.ctx))

\* A rebuild of a list in which an item without mesh handles stands before an item
\* whose descriptor the merged list covers.
C14_Witness ==
    /\ Replayed
    /\ last.rebuilt
    /\ \E i, j \in 1..Len(items[TheList]) :
          /\ i < j
          /\ ~HasGeometry(items[TheList][i])
          /\ HasGeometry(items[TheList][j])
          /\ \E n \in 1..Len(meshHandles[items[TheList][j]].list),
                c \in 1..Len(TheMerged) :
                LET h == meshHandles[items[TheList][j]].list[n]
                IN  h.count > 0 /\ Units(h) \subseteq Units(TheMerged[c])


(***************************************************************************)
(* The visibility cache once a fetch has completed                         *)
(***************************************************************************)
\* C16: from the moment the fetch of a cluster has completed, no step changes the
\* cluster's entry or its leaf list or issues a fetch for it, and a step in which a
\* context asks for the cluster's list (its root moves into the cluster, or the
\* update is forced) invokes the callback within the step with that full list.
C16_ReadyEntryIsStable ==
    [][\A c \in Clusters :
          FetchDone(c)
          => /\ pvsArray'[c] = pvsArray[c]
             /\ pvsArray'[c].list = DecodePvs(c)
             /\ fetchCount'[c] = fetchCount[c]
             /\ \A f \in pending' : f.cluster # c
             /\ (/\ last'.op \in {"render", "updatePvs"}
                 /\ ~last'.skipped
                 /\ Clustered(pvsRoot'[last'.ctx])
                 /\ LeafCluster(pvsRoot'[last'.ctx]) = c)
                => /\ last'.cb
                   /\ last'.cbCluster = c
                   /\ last'.cbFull
                   /\ ~last'.cbLoading]_vars

\* A second context asks for the list of a cluster whose fetch has completed and is
\* handed it within its own step.
C16_Witness ==
    /\ last.op \in {"render", "updatePvs"}
    /\ last.cb
    /\ last.cbFull
    /\ ~last.cbLoading
    /\ FetchDone(last.cbCluster)
    /\ \E k \in Contexts :
          /\ k # last.ctx
          /\ Clustered(pvsRoot[k])
          /\ LeafCluster(pvsRoot[k]) = last.cbCluster
          /\ items[k] # <<>>


(***************************************************************************)
(* World load on its own: any brush entity table                           *)
(***************************************************************************)
NumModels == 3
MaxEnts == 4
EntTables == UNION {[1..n -> 0..(NumModels - 1)] : n \in 0..MaxEnts}

\* The index response arrives, with some table of brush entities.
LoadInfoOf(ents) ==
    /\ info.isNull
    /\ Becomes(LoadInfo(Begin(State, "loadWorld", 0), NumModels, ents))

NextLoad == \E ents \in EntTables : LoadInfoOf(ents)

SpecLoad == Init /\ [][NextLoad]_vars

\* The first entity that claims a model index an earlier entity claimed; 0 if none.
SecondClaim(ents) ==
    LET seconds == {j \in 1..Len(ents) : \E i \in 1..(j - 1) : ents[i] = ents[j]}
    IN  IF seconds = {} THEN 0 ELSE CHOOSE j \in seconds : \A j2 \in seconds : j <= j2

\* C17: a world load fails exactly when two brush entities claim one model index;
\* it fails at the second claim, leaving the models registered before it, the
\* one under the contested index among them, as they were, and registering none
\* after it.
C17_DuplicateModelIndexFails ==
    ~info.isNull
    => LET ents == info.list
           j == SecondClaim(ents)
           done == IF j = 0 THEN Len(ents) ELSE j - 1
       IN  /\ last.threw <=> j # 0
           /\ \A m \in 1..Len(models) :
                 IF \E i \in 1..done : ents[i] + 1 = m
                 THEN ents[models[m]] + 1 = m /\ models[m] <= done
                 ELSE models[m] = 0

\* A failed load: a model was registered, a later entity claimed its index, and it
\* is still the first claimant that is registered there.
C17_Witness ==
    /\ ~info.isNull
    /\ last.threw
    /\ \E i, j \in 1..Len(info.list) :
          /\ i < j
          /\ j < Len(info.list)
          /\ info.list[i] = info.list[j]
          /\ models[info.list[j] + 1] = i


(***************************************************************************)
(* A draw list whose items change it while it is rebuilt                   *)
(***************************************************************************)
\* Tiles that share every attribute; with pair > 0 one item holds two of them and
\* the next has no geometry yet.
InitReenter ==
    \E pair \in 0..(NumTiles - 1) : InitWith(SceneHandles("none", 1, pair, FALSE), NoLeaf)

\* drawList.render(context) of a dirty list, during whose rebuild getMeshHandles of
\* the item at position p calls drawList.addItem(i) for an item not in the list.
ListRenderAdding(p, i) ==
    /\ handles[TheList].isNull
    /\ p \in 1..Len(items[TheList])
    /\ i \notin Range(items[TheList])
    /\ LET w == [Begin(State, "render", TheList)
                    EXCEPT !.last.adds = {[at |-> p, item |-> i]}]
       IN  \E ord \in SortChoices(w, TheList, {}) :
               Becomes(DrawListRender(w, TheList, {}, ord))

NextReenter ==
    \/ \E i \in Tiles : ListAddItem(i)
    \/ \E i \in Tiles : ListUpdateItem(i)
    \/ ListInvalidate
    \/ \E p \in 0..Len(items[TheList]) : ListRender(IF p = 0 THEN {} ELSE {p})
    \/ \E p \in Tiles, i \in Tiles : ListRenderAdding(p, i)

SpecReenter == InitReenter /\ [][NextReenter]_vars

\* C21: when addItem, updateItem or invalidate was called while a rebuild ran, then
\* once the render that rebuilt is over either the cached list is dirty or the
\* lists are the sort and the merge of the descriptors of the items now in the list
\* (so that the renders that follow, which rebuild nothing, draw every item).
C21_NoChangeLost ==
    (Replayed /\ last.rebuilt /\ (last.reentered \/ last.adds # {}))
    => \/ handles[last.ctx].isNull
       \/ IsSortMergeOf(last.ctx, DescriptorsOfLoaded(last.ctx))


(***************************************************************************)
(* Rebuild: the merge conserves geometry                                   *)
(***************************************************************************)
TotalCount(hs) == SumSeq([i \in 1..Len(hs) |-> hs[i].count])

\* The handles of the sorted list hs that went into its n-th merged call.
RunOf(hs, n) ==
    LET s == NthStart(hs, n)
    IN  SubSeq(hs, s, RunEnd(hs, s))

\* The lists of the context that rendered last conserve the geometry of the
\* descriptors that survive the collection.
Conserved ==
    LET hs == handles[last.ctx].list
    IN  /\ \A n \in 1..Len(TheMerged) :
              /\ TheMerged[n].count > 0
              /\ TheMerged[n].count = TotalCount(RunOf(hs, n))
        /\ TotalCount(TheMerged) = TotalCount(DescriptorsOfLoaded(last.ctx))

\* In this step every descriptor of every item keeps its offset and its count.
DescriptorsKeepRange ==
    \A it \in DOMAIN meshHandles :
        /\ meshHandles'[it].isNull = meshHandles[it].isNull
        /\ Len(meshHandles'[it].list) = Len(meshHandles[it].list)
        /\ \A j \in 1..Len(meshHandles[it].list) :
              /\ meshHandles'[it].list[j].offset = meshHandles[it].list[j].offset
              /\ meshHandles'[it].list[j].count = meshHandles[it].list[j].count

\* C22: after every rebuild each merged call counts the sum of the descriptors
\* collapsed into it and more than zero, the merged list counts in total what the
\* surviving descriptors count, and the rebuild leaves the offset and the count of
\* every item's descriptors as they were.
C22_MergeConservesGeometry ==
    [][(Replayed /\ last.rebuilt)' => (Conserved' /\ DescriptorsKeepRange)]_vars

\* A rebuild that collapsed two descriptors into one call and left out an empty one.
C22_Witness ==
    /\ Replayed
    /\ last.rebuilt
    /\ \E n \in 1..Len(TheMerged) : Len(RunOf(handles[TheList].list, n)) >= 2
    /\ \E i \in 1..Len(items[TheList]) :
          \E j \in 1..Len(meshHandles[items[TheList][i]].list) :
              meshHandles[items[TheList][i]].list[j].count = 0


(***************************************************************************)
(* The cached leaf list of a completed visibility fetch                    *)
(***************************************************************************)
\* The number of leaves the first n records of cluster c's visibility set stand for.
RECURSIVE LeavesBefore(_, _)
LeavesBefore(c, n) ==
    IF n = 0 THEN 0 ELSE LeavesBefore(c, n - 1) + Len(clusters[VisRecord(c)[n]])

\* The list is the leaf lists of c's visible clusters, one after the other in record
\* order.
IsRecordOrderConcatenation(list, c) ==
    /\ Len(list) = LeavesBefore(c, Len(VisRecord(c)))
    /\ \A n \in 1..Len(VisRecord(c)) :
          \A j \in 1..Len(clusters[VisRecord(c)[n]]) :
              list[LeavesBefore(c, n - 1) + j] = clusters[VisRecord(c)[n]][j]

DistinctIndices(c) ==
    \A m, n \in 1..Len(VisRecord(c)) : m # n => VisRecord(c)[m] # VisRecord(c)[n]

\* C23: once the visibility fetch of a cluster has completed, the cached list of the
\* cluster is the concatenation, in record order, of the cluster table's leaf lists
\* of the decoded indices; it holds no leaf twice when the indices are distinct, and
\* no leaf that is in no cluster.
C23_CachedListIsConcatenation ==
    \A c \in Clusters :
        FetchDone(c) =>
            LET list == pvsArray[c].list
            IN  /\ IsRecordOrderConcatenation(list, c)
                /\ DistinctIndices(c) =>
                       \A m, n \in 1..Len(list) : m # n => list[m] # list[n]
                /\ \A n \in 1..Len(list) : LeafCluster(list[n]) # NoCluster

\* The fetch of a cluster that sees two clusters, one of them with two leaves, has
\* just completed.
C23_Witness ==
    /\ last.op = "pvsLoaded"
    /\ FetchDone(last.cbCluster)
    /\ Len(VisRecord(last.cbCluster)) >= 2
    /\ Len(pvsArray[last.cbCluster].list) > Len(VisRecord(last.cbCluster))


(***************************************************************************)
(* Lifecycle hooks and membership                                          *)
(***************************************************************************)
\* C24: in every draw list an item has received onAddToDrawList once more than
\* onRemoveFromDrawList while it is in the items, and as often when it is not, and
\* no item is in the items twice.
C24_HooksBalancedWithMembership ==
    \A k \in Contexts :
        /\ \A it \in DOMAIN hookBalance[k] :
              hookBalance[k][it] = IF it \in Range(items[k]) THEN 1 ELSE 0
        /\ \A i, j \in 1..Len(items[k]) : i # j => items[k][i] # items[k][j]

\* A replacePvs has cleared a populated list and filled it again: one item was
\* removed and added again, another was removed for good.
C24_Witness ==
    /\ last.installed
    /\ \E it \in last.removed : it \in Range(items[last.ctx])
    /\ \E it \in last.removed : it \notin Range(items[last.ctx])


(***************************************************************************)
(* StudioModel: loading the sub-models, the model-load callbacks           *)
(***************************************************************************)
RECURSIVE InvokeCallback(_, _, _)
RECURSIVE AddFrom(_, _, _)

\* StudioModel.addModelLoadCallback: the callback is invoked for every loaded
\* sub-model and then joins the callbacks.
AddModelLoadCallback(w, c) == AddFrom(w, c, 1)

AddFrom(w, c, i) ==
    IF i > Len(w.loaded) THEN [w EXCEPT !.modelLoadCallbacks = Append(@, c)]
    ELSE AddFrom(InvokeCallback(w, c, w.loaded[i]), c, i + 1)

\* One invocation callback(model). What a callback does is its own: the callbacks
\* named in last.nested register another callback while they run, once.
InvokeCallback(w, c, m) ==
    LET w1 == [w EXCEPT !.invocations[c][m] = @ + 1]
        nest == {e \in w1.last.nested : e.by = c}
    IN  IF nest = {} THEN w1
        ELSE LET e == CHOOSE x \in nest : TRUE
             IN  AddModelLoadCallback([w1 EXCEPT !.last.nested = @ \ {e}], e.cb)

\* StudioModel.dispatchModelLoadEvent: the length of the callbacks is read again
\* before every invocation.
RECURSIVE DispatchFrom(_, _, _)
DispatchFrom(w, m, i) ==
    IF i > Len(w.modelLoadCallbacks) THEN w
    ELSE DispatchFrom(InvokeCallback(w, w.modelLoadCallbacks[i], m), m, i + 1)

dispatchModelLoadEvent(w, m) == DispatchFrom(w, m, 1)

\* The callback handed to StudioModel.loadNext is invoked with requeue.
Report(w, requeue) == [w EXCEPT !.reported = IF requeue THEN "requeue" ELSE "done"]

\* The closure handed to next.loadNext that takes every sub-model it drops from the
\* queue for loaded.
OnSmdLoadNextAlwaysLoaded(w, next, requeue2) ==
    LET w1 == IF requeue2 THEN w
              ELSE dispatchModelLoadEvent(
                       [w EXCEPT !.toLoad = Tail(@), !.loaded = Append(@, next)], next)
    IN  Report(w1, w1.toLoad # <<>>)

\* The closure StudioModel.loadNext hands to next.loadNext.
OnSmdLoadNext(w, next, requeue2) ==
    LET w1 == IF requeue2 THEN w
              ELSE LET w2 == [w EXCEPT !.toLoad = Tail(@)]
                   IN  IF w2.meshData[next]
                       THEN dispatchModelLoadEvent(
                                [w2 EXCEPT !.loaded = Append(@, next)], next)
                       ELSE w2
    IN  Report(w1, w1.toLoad # <<>>)

\* SmdModel.loadNext, with the closure of StudioModel.loadNext as its callback.
SmdLoadNext(w, next) ==
    IF ~w.meshData[next]
    THEN [w EXCEPT !.mdlRequest = [kind |-> "mesh", model |-> next],
                   !.meshFetches[next] = @ + 1,
                   !.reported = "waiting"]
    ELSE OnSmdLoadNext(w, next, FALSE)

\* StudioModel.loadNext
StudioLoadNext(w) ==
    IF w.mdlInfo.isNull
    THEN [w EXCEPT !.mdlRequest = [kind |-> "info", model |-> 0], !.reported = "waiting"]
    ELSE IF w.toLoad = <<>> THEN Report(w, FALSE)
    ELSE SmdLoadNext(w, w.toLoad[1])

\* What the callbacks may do while they run: nothing, or one callback that is
\* invoked registers one that is not registered yet.
Nestings(by) ==
    {{}} \cup {{[by |-> c, cb |-> d]} :
                  c \in by, d \in (Callbacks \ Range(modelLoadCallbacks)) \ by}

AllNestings == {{}} \cup {{[by |-> c, cb |-> d]} : c \in Callbacks, d \in Callbacks}

\* The loader calls loadNext: for the first time, or again after requeue = true.
LoadNext(nested) ==
    /\ reported \in {"idle", "requeue"}
    /\ nested \in Nestings(Range(modelLoadCallbacks))
    /\ Becomes(StudioLoadNext([Begin(State, "loadNext", 0) EXCEPT !.last.nested = nested]))

\* The model info arrives, with n sub-models in its body parts.
InfoLoaded(n) ==
    /\ mdlRequest.kind = "info"
    /\ LET w == Begin(State, "infoLoaded", 0)
       IN  Becomes(Report([w EXCEPT !.mdlRequest = NoRequest,
                                    !.mdlInfo = ListOf([i \in 1..n |-> i]),
                                    !.toLoad = [i \in 1..n |-> i]], TRUE))

\* The request of the model info fails.
InfoFailed ==
    /\ mdlRequest.kind = "info"
    /\ Becomes(Report([Begin(State, "infoFailed", 0) EXCEPT !.mdlRequest = NoRequest], FALSE))

\* The mesh data of a sub-model arrive.
MeshLoaded ==
    /\ mdlRequest.kind = "mesh"
    /\ LET w == Begin(State, "meshLoaded", 0)
           m == mdlRequest.model
       IN  Becomes(OnSmdLoadNext([w EXCEPT !.mdlRequest = NoRequest, !.meshData[m] = TRUE],
                                 m, TRUE))

\* The request of the mesh data of a sub-model fails.
MeshFailed ==
    /\ mdlRequest.kind = "mesh"
    /\ LET w == Begin(State, "meshFailed", 0)
       IN  Becomes(OnSmdLoadNext([w EXCEPT !.mdlRequest = NoRequest],
                                 mdlRequest.model, FALSE))

\* Someone registers a callback that is not registered yet.
RegisterCallback(c, nested) ==
    /\ c \notin Range(modelLoadCallbacks)
    /\ nested \in Nestings({c})
    /\ LET w == [Begin(State, "addModelLoadCallback", 0) EXCEPT !.last.nested = nested]
       IN  Becomes(AddModelLoadCallback(w, c))

NextStudio ==
    \/ \E nested \in AllNestings : LoadNext(nested)
    \/ \E n \in 0..NumSubModels : InfoLoaded(n)
    \/ InfoFailed
    \/ MeshLoaded
    \/ MeshFailed
    \/ \E c \in Callbacks, nested \in AllNestings : RegisterCallback(c, nested)

InitStudio == InitWith(WorldHandles, NoLeaf)

SpecStudio == InitStudio /\ [][NextStudio]_vars

\* The sub-model's mesh data request has failed.
FetchFailed(m) ==
    /\ ~mdlInfo.isNull
    /\ m \in Range(mdlInfo.list)
    /\ meshFetches[m] = 1
    /\ mdlRequest.model # m
    /\ ~meshData[m]

\* C25: every registered callback has been invoked exactly once for every sub-model
\* that finished loading, whether it was registered before or after the sub-model
\* loaded, and never for a sub-model whose mesh data request failed.
C25_CallbackOncePerLoadedModel ==
    \A c \in Range(modelLoadCallbacks), m \in SubModels :
        /\ m \in Range(loaded) => invocations[c][m] = 1
        /\ FetchFailed(m) => invocations[c][m] = 0


(***************************************************************************)
(* StudioModel: the loader runs loadNext to the end                        *)
(***************************************************************************)
\* The loader calls loadNext whenever it may, and every request is answered, with
\* the data or with a failure.
SpecStudioFair ==
    /\ InitStudio
    /\ [][NextStudio]_vars
    /\ WF_vars(\E nested \in AllNestings : LoadNext(nested))
    /\ WF_vars(InfoFailed \/ \E n \in 0..NumSubModels : InfoLoaded(n))
    /\ WF_vars(MeshLoaded \/ MeshFailed)

InfoFetched == ~mdlInfo.isNull

\* The queue is empty, every sub-model had one mesh data request, and the loaded
\* list holds once the sub-models whose request succeeded and no other.
AllSettled ==
    /\ toLoad = <<>>
    /\ \A m \in Range(mdlInfo.list) :
          /\ meshFetches[m] = 1
          /\ Occurrences(loaded, m) = IF meshData[m] THEN 1 ELSE 0
    /\ Range(loaded) \subseteq Range(mdlInfo.list)

\* C26: once the model info has been fetched, a loader that calls loadNext again
\* after every requeue = true, one call at a time, is eventually told requeue = false;
\* then the queue is empty, every sub-model had exactly one mesh data request, and
\* each is in the loaded list once if its request succeeded and not at all if it
\* failed.
C26_LoadingTerminates ==
    /\ InfoFetched ~> (reported = "done")
    /\ []((InfoFetched /\ reported = "done") => AllSettled)

\* The loader was told requeue = false for a model of two sub-models, one loaded and
\* one whose request failed.
C26_Witness ==
    /\ InfoFetched
    /\ reported = "done"
    /\ Len(mdlInfo.list) >= 2
    /\ \E m \in Range(mdlInfo.list) : meshData[m]
    /\ \E m \in Range(mdlInfo.list) : ~meshData[m]


(***************************************************************************)
(* MapViewer.onRenderFrame: the sky passes                                 *)
(***************************************************************************)
MainContext == 1
SkyContext == NumContexts

\* VisLeaf.canSeeSky3D and VisLeaf.canSeeSky2D of the leaves of this world: the first
\* leaf sees the 3D sky, the first two see the 2D sky.
LeafCanSeeSky3D(l) == l = 1
LeafCanSeeSky2D(l) == l \in {1, 2}

\* pvsRoot == null || pvsRoot.cluster === -1
NoRoot(w, k) ==
    \/ w.pvsRoot[k] \in {UndefLeaf, NoLeaf}
    \/ LeafCluster(w.pvsRoot[k]) = NoCluster

\* RenderContext.canSeeSky2D and RenderContext.canSeeSky3D
canSeeSky2D(w, k) == NoRoot(w, k) \/ LeafCanSeeSky2D(w.pvsRoot[k])
canSeeSky3D(w, k) == NoRoot(w, k) \/ LeafCanSeeSky3D(w.pvsRoot[k])

\* Map.setSkyMaterialEnabled
setSkyMaterialEnabled(w, value) ==
    IF w.skyMaterial # "null"
    THEN [w EXCEPT !.skyMaterial = IF value THEN "enabled" ELSE "disabled"]
    ELSE w

\* MapViewer.onRenderFrame up to the rendering of the main context: the sky pass, as
\* the sky draw list replays in the order ord, or the 2D sky.
SkyPasses(w, cam, ord) ==
    IF w.last.skyPass
    THEN LET a == RenderPvs(setSkyMaterialEnabled(w, TRUE), SkyContext, cam)
         IN  setSkyMaterialEnabled(DrawListRender(a, SkyContext, {}, ord), FALSE)
    ELSE IF w.last.sky2D THEN setSkyMaterialEnabled(w, TRUE)
    ELSE w

SkySortChoices(w, cam) ==
    IF w.last.skyPass
    THEN SortChoices(RenderPvs(setSkyMaterialEnabled(w, TRUE), SkyContext, cam),
                     SkyContext, {})
    ELSE {<<>>}

\* MapViewer.onRenderFrame with the camera at cam.
RenderFrame(cam) ==
    LET w0 == Begin(State, "renderFrame", MainContext)
        w1 == [w0 EXCEPT
                  !.last.skyPass = w0.skyRenderContext /\ canSeeSky3D(w0, MainContext),
                  !.last.sky2D = canSeeSky2D(w0, MainContext)]
    IN  \E ordSky \in SkySortChoices(w1, cam) :
            LET w2 == CHOOSE out \in {RenderPvs(r, MainContext, cam) :
                                         r \in {SkyPasses(w1, cam, ordSky)}} : TRUE
            IN  \E ord \in SortChoices(w2, MainContext, {}) :
                    Becomes(DrawListRender(w2, MainContext, {}, ord))

\* The map info arrives and the next onUpdateFrame finds it: Map.loadInfo makes the
\* sky material, onUpdateFrame the sky context when the map has a sky camera.
LoadMap(skyCamera, enabled) ==
    /\ info.isNull
    /\ LET w == LoadInfo(Begin(State, "loadMap", 0), Len(WorldEnts), WorldEnts)
       IN  Becomes([w EXCEPT !.skyMaterial = IF enabled THEN "enabled" ELSE "disabled",
                             !.skyRenderContext = skyCamera])

NextFrame ==
    \/ \E skyCamera \in BOOLEAN, enabled \in BOOLEAN : LoadMap(skyCamera, enabled)
    \/ \E cam \in Positions : RenderFrame(cam)
    \/ \E f \in pending : FetchComplete(f)

SpecFrame == Init /\ [][NextFrame]_vars

\* C27: in every frame, while the main context renders, the sky material is enabled
\* exactly if the 3D sky pass was not rendered in the frame and the main context can
\* see the 2D sky.
C27_SkyEnabledIffNoPassAndSky2D ==
    (last.op = "renderFrame" /\ skyMaterial # "null")
    => (skyMaterial = "enabled" <=> (~last.skyPass /\ last.sky2D))

====
